---------------------------- MODULE Spec2Model ----------------------------
(***************************************************************************)
(* The classic chess rules engine (class Normal of                         *)
(* chess/app/variants/classic.py) as a state machine.  The engine's        *)
(* private fields are the variables; move, assert_move, load_history,      *)
(* save_history and init_board_state are the actions.  The board store,    *)
(* the piece catalog and the exception classes live outside the given      *)
(* sources and are modelled from the specification's description of those  *)
(* collaborators.                                                          *)
(* Spec starts from the standard initial layout; SetupSpec starts from     *)
(* positions composed on the board of Normal(init_board_state=False).      *)
(***************************************************************************)
EXTENDS Integers, Sequences, FiniteSets

VARIABLES
    board,                          \* self.__board : square -> piece or None
    half_moves,                     \* self.__half_moves
    moves_history,                  \* self.__moves_history
    board_history,                  \* self.__board_history (snapshot stack)
    position_occurence,             \* self.__position_occurence
    en_passant,                     \* self.__en_passant
    half_moves_since_pawn_moved,    \* self.__half_moves_since_pawn_moved
    half_moves_since_capture,       \* self.__half_moves_since_capture
    castling,                       \* self.__castling
    pocket,                         \* self.__pocket
    shared,                         \* place in the snapshot stack of the snapshot whose board and
                                    \* occurrence table are the very objects the engine works on, or 0
    caller,                         \* which client drives the engine (its repertoire of moves)
    ret,                            \* the last call made on the engine and how it ended
    str_log,                        \* the client's log: str(self) read before each move in the history
    rollbacks,                      \* number of load_history calls made so far
    obs_log,                        \* the client's log: the engine's fields read before each move in the history
    misused,                        \* load_history has been called with an offset outside 1..number of snapshots
    saves,                          \* number of save_history calls the client has made itself
    resets                          \* number of init_board_state calls the client has made on the game

engine == <<board, half_moves, moves_history, board_history, position_occurence,
            en_passant, half_moves_since_pawn_moved, half_moves_since_capture,
            castling, pocket, shared>>

vars == <<board, half_moves, moves_history, board_history, position_occurence,
          en_passant, half_moves_since_pawn_moved, half_moves_since_capture,
          castling, pocket, shared, caller, ret, str_log, rollbacks, obs_log, misused,
          saves, resets>>

---------------------------------------------------------------------------
(* Sides, pieces, positions, moves                                         *)

White == "w"
Black == "b"
sides == <<White, Black>>

None == <<>>
NoPromotion == "None"

King(side)   == <<"King", side>>
Queen(side)  == <<"Queen", side>>
Rook(side)   == <<"Rook", side>>
Bishop(side) == <<"Bishop", side>>
Knight(side) == <<"Knight", side>>
Pawn(side)   == <<"Pawn", side>>

KindOf(piece) == piece[1]
SideOf(piece) == piece[2]

Kinds == {"King", "Queen", "Rook", "Bishop", "Knight", "Pawn"}

\* The set of sides other than the given one: set(self.sides) - {side}
OtherSides(side) == {sides[i] : i \in 1..Len(sides)} \ {side}

ascii_lowercase == <<"a", "b", "c", "d", "e", "f", "g", "h">>
digits == <<"1", "2", "3", "4", "5", "6", "7", "8">>

\* StandardPosition((file, rank)): zero-based file and rank, as one square index
StandardPosition(file, rank) == rank * 8 + file
FileOf(position) == position % 8
RankOf(position) == position \div 8

Squares == 0..63

\* StandardPosition.__file_from_str_to_int for a one-letter file
FileFromStr(letter) == (CHOOSE i \in 1..Len(ascii_lowercase) : ascii_lowercase[i] = letter) - 1
\* StandardPosition.__rank_from_str_to_int
RankFromStr(digit) == digit - 1
\* StandardPosition('e4'), the text given as letter and digit
FromStr(letter, digit) == StandardPosition(FileFromStr(letter), RankFromStr(digit))

\* StandardPosition.__str__: file letter and one-based rank
PositionStr(position) == <<ascii_lowercase[FileOf(position) + 1], digits[RankOf(position) + 1]>>

\* StandardMove(source, destination, promotion)
StandardMove(source, destination, promotion) ==
    [source |-> source, destination |-> destination, promotion |-> promotion]

\* A move given by its text, e.g. MoveOf("e", 2, "e", 4, NoPromotion)
MoveOf(l1, d1, l2, d2, promotion) == StandardMove(FromStr(l1, d1), FromStr(l2, d2), promotion)

---------------------------------------------------------------------------
(* Board store (external collaborator)                                     *)

ValidatePosition(file, rank) == file \in 0..7 /\ rank \in 0..7

GetPiece(b, position) == b[position]
PutPiece(b, piece, position) == [b EXCEPT ![position] = piece]
RemovePiece(b, position) == [b EXCEPT ![position] = None]

\* board.pieces: the occupied squares
PiecesOn(b) == {p \in Squares : b[p] # None}
\* board.find_pieces(requested_piece): positions holding a piece equal to it
FindPieces(b, requested) == {p \in Squares : b[p] = requested}

EmptyBoard == [p \in Squares |-> None]

\* Piece.__str__: the piece letter, upper case for White
PieceLetter(kind) ==
    CASE kind = "King" -> <<"K", "k">>
      [] kind = "Queen" -> <<"Q", "q">>
      [] kind = "Rook" -> <<"R", "r">>
      [] kind = "Bishop" -> <<"B", "b">>
      [] kind = "Knight" -> <<"N", "n">>
      [] kind = "Pawn" -> <<"P", "p">>
PieceStr(piece) == IF SideOf(piece) = White THEN PieceLetter(KindOf(piece))[1]
                   ELSE PieceLetter(KindOf(piece))[2]

\* One rank of the FEN board field: piece letters, runs of empty squares as counts
RECURSIVE FenRank(_, _, _, _)
FenRank(b, rank, file, run) ==
    IF file > 7 THEN (IF run > 0 THEN <<digits[run]>> ELSE <<>>)
    ELSE LET piece == b[StandardPosition(file, rank)] IN
         IF piece = None THEN FenRank(b, rank, file + 1, run + 1)
         ELSE (IF run > 0 THEN <<digits[run]>> ELSE <<>>) \o <<PieceStr(piece)>>
              \o FenRank(b, rank, file + 1, 0)

\* board.get_fen(): ranks 8 down to 1
GetFen(b) == [i \in 1..8 |-> FenRank(b, 8 - i, 0, 0)]

\* hash(self.board): a function of the board layout alone
BoardHash(b) == GetFen(b)

---------------------------------------------------------------------------
(* Piece catalog (external collaborator): movement profiles                *)

Infinity == -1

Descriptor(vector, distance, any_direction, capture_break) ==
    [vector |-> vector, distance |-> distance,
     any_direction |-> any_direction, capture_break |-> capture_break]

MovementMove(kind) ==
    CASE kind = "King" -> {Descriptor(<<1, 0>>, 1, TRUE, TRUE), Descriptor(<<1, 1>>, 1, TRUE, TRUE)}
      [] kind = "Queen" -> {Descriptor(<<1, 0>>, Infinity, TRUE, TRUE),
                            Descriptor(<<1, 1>>, Infinity, TRUE, TRUE)}
      [] kind = "Rook" -> {Descriptor(<<1, 0>>, Infinity, TRUE, TRUE)}
      [] kind = "Bishop" -> {Descriptor(<<1, 1>>, Infinity, TRUE, TRUE)}
      [] kind = "Knight" -> {Descriptor(<<1, 2>>, 1, TRUE, TRUE)}
      [] kind = "Pawn" -> {Descriptor(<<0, 1>>, 1, FALSE, TRUE)}

MovementCapture(kind) ==
    CASE kind = "Pawn" -> {Descriptor(<<1, 1>>, 1, FALSE, TRUE), Descriptor(<<-1, 1>>, 1, FALSE, TRUE)}
      [] OTHER -> MovementMove(kind)

---------------------------------------------------------------------------
(* Move generator                                                          *)

\* Normal.__transform_vector
TransformVector(vector, all_directions, side) ==
    IF all_directions
    THEN { <<vector[1], vector[2]>>,
           <<vector[2], vector[1]>>,
           <<vector[2], vector[1] * (-1)>>,
           <<vector[1], vector[2] * (-1)>>,
           <<vector[1] * (-1), vector[2] * (-1)>>,
           <<vector[2] * (-1), vector[1] * (-1)>>,
           <<vector[2] * (-1), vector[1]>>,
           <<vector[1] * (-1), vector[2]>> }
    ELSE IF side = Black
         THEN { <<vector[1] * (-1), vector[2] * (-1)>> }
         ELSE { vector }

\* the two nested loops' heads: every descriptor with every vector it transforms to
Vectors(descriptors, side) ==
    UNION { { [vector |-> v, distance |-> d.distance, capture_break |-> d.capture_break] :
              v \in TransformVector(d.vector, d.any_direction, side) } : d \in descriptors }

\* the `for distance in loop` has run out: range(1, d + 1), or itertools.count(1)
LoopEnds(distance, limit) == IF limit = Infinity THEN FALSE ELSE distance > limit

\* the inner loop of standard_moves along one vector, from step `distance` on
RECURSIVE MoveRay(_, _, _, _, _)
MoveRay(b, position, vector, distance, limit) ==
    IF LoopEnds(distance, limit) THEN {}
    ELSE LET file == FileOf(position) + vector[1] * distance
             rank == RankOf(position) + vector[2] * distance
         IN  IF ~ValidatePosition(file, rank) THEN {}
             ELSE IF GetPiece(b, StandardPosition(file, rank)) # None THEN {}
             ELSE {StandardPosition(file, rank)}
                  \cup MoveRay(b, position, vector, distance + 1, limit)

\* Normal.standard_moves
StandardMoves(b, position) ==
    LET piece == GetPiece(b, position) IN
    UNION { MoveRay(b, position, dv.vector, 1, dv.distance) :
            dv \in Vectors(MovementMove(KindOf(piece)), SideOf(piece)) }

\* the inner loop of attacked_fields along one vector
RECURSIVE AttackRay(_, _, _, _, _, _)
AttackRay(b, position, side, vector, distance, limit) ==
    IF LoopEnds(distance, limit) THEN {}
    ELSE LET file == FileOf(position) + vector[1] * distance
             rank == RankOf(position) + vector[2] * distance
             new_piece == GetPiece(b, StandardPosition(file, rank))
         IN  IF ~ValidatePosition(file, rank) THEN {}
             ELSE IF new_piece = None
                  THEN {StandardPosition(file, rank)}
                       \cup AttackRay(b, position, side, vector, distance + 1, limit)
             ELSE IF SideOf(new_piece) # side THEN {StandardPosition(file, rank)}
             ELSE {}

\* Normal.attacked_fields
AttackedFields(b, position) ==
    LET piece == GetPiece(b, position) IN
    UNION { AttackRay(b, position, SideOf(piece), dv.vector, 1, dv.distance) :
            dv \in Vectors(MovementCapture(KindOf(piece)), SideOf(piece)) }

\* Normal.attacked_fields_by_sides
AttackedFieldsBySides(b, attackers) ==
    UNION { AttackedFields(b, position) :
            position \in {p \in PiecesOn(b) : SideOf(b[p]) \in attackers} }

\* the inner loop of standard_captures along one vector
RECURSIVE CaptureRay(_, _, _, _, _, _, _)
CaptureRay(b, position, side, vector, distance, limit, capture_break) ==
    IF LoopEnds(distance, limit) THEN {}
    ELSE LET file == FileOf(position) + vector[1] * distance
             rank == RankOf(position) + vector[2] * distance
             new_piece == GetPiece(b, StandardPosition(file, rank))
         IN  IF ~ValidatePosition(file, rank) THEN {}
             ELSE IF new_piece = None
                  THEN CaptureRay(b, position, side, vector, distance + 1, limit, capture_break)
             ELSE IF SideOf(new_piece) # side
                  THEN {StandardPosition(file, rank)}
                       \cup (IF capture_break THEN {}
                             ELSE CaptureRay(b, position, side, vector, distance + 1, limit,
                                             capture_break))
             ELSE {}


\* self.on_move
OnMove(h) == sides[((h - 1) % Len(sides)) + 1]
\* self.moves
FullMoves(h) == (h + 1) \div Len(sides)

\* Normal.standard_captures; g is the engine, b the board looked at
StandardCaptures(g, b, position) ==
    LET piece == GetPiece(b, position) IN
    (IF KindOf(piece) = "Pawn" /\ g.en_passant # None
        /\ g.en_passant[1] \in AttackedFields(b, position)
     THEN {g.en_passant[1]} ELSE {})
    \cup UNION { CaptureRay(b, position, SideOf(piece), dv.vector, 1, dv.distance,
                            dv.capture_break) :
                 dv \in Vectors(MovementCapture(KindOf(piece)), SideOf(piece)) }

\* the pawn branch with the double step of the white pawns only
PawnSpecialMovesWhiteOnly(b, position) ==
    LET piece == GetPiece(b, position)
        file == FileOf(position)
        rank == RankOf(position)
    IN  IF piece = Pawn(White) /\ rank = 1
           /\ GetPiece(b, StandardPosition(file, 2)) = None
           /\ GetPiece(b, StandardPosition(file, 3)) = None
        THEN {StandardPosition(file, 3)}
        ELSE {}

\* the pawn branch of special_moves: the double step from the starting rank
PawnSpecialMoves(b, position) ==
    LET piece == GetPiece(b, position)
        file == FileOf(position)
        rank == RankOf(position)
        new_position ==
            IF piece = Pawn(Black) /\ rank = 6 /\ GetPiece(b, StandardPosition(file, 5)) = None
            THEN <<file, rank - 2>>
            ELSE IF piece = Pawn(White) /\ rank = 1
                    /\ GetPiece(b, StandardPosition(file, 2)) = None
            THEN <<file, rank + 2>>
            ELSE None
    IN  IF new_position # None /\ ValidatePosition(new_position[1], new_position[2])
           /\ GetPiece(b, StandardPosition(new_position[1], new_position[2])) = None
        THEN {StandardPosition(new_position[1], new_position[2])}
        ELSE {}

\* the king branch of special_moves: castling to either side
KingSpecialMoves(g, b, position) ==
    LET file == FileOf(position)
        rank == RankOf(position)
        on_move == OnMove(g.half_moves)
        attacked_fields == AttackedFieldsBySides(g.board, OtherSides(on_move))
        king_side ==
            LET pos1 == StandardPosition(file + 1, rank)
                pos2 == StandardPosition(file + 2, rank)
            IN  IF King(on_move) \in g.castling
                   /\ GetPiece(b, pos1) = None /\ GetPiece(b, pos2) = None
                   /\ {pos1, pos2} \cap attacked_fields = {}
                THEN {pos2} ELSE {}
        queen_side ==
            LET pos1 == StandardPosition(file - 1, rank)
                pos2 == StandardPosition(file - 2, rank)
                pos3 == StandardPosition(file - 2, rank)
            IN  IF Queen(on_move) \in g.castling
                   /\ GetPiece(b, pos1) = None /\ GetPiece(b, pos2) = None
                   /\ GetPiece(b, pos3) = None
                   /\ {pos1, pos2} \cap attacked_fields = {}
                THEN {pos2} ELSE {}
    IN  king_side \cup queen_side

\* Normal.special_moves
SpecialMoves(g, b, position) ==
    LET piece == GetPiece(b, position) IN
    IF KindOf(piece) = "Pawn" THEN PawnSpecialMoves(b, position)
    ELSE IF KindOf(piece) = "King" /\ g.castling # {} /\ FileOf(position) = 4
    THEN KingSpecialMoves(g, b, position)
    ELSE {}

\* available_dest of assert_move and the candidates of the enumerations
AvailableDest(g, position) ==
    StandardMoves(g.board, position) \cup StandardCaptures(g, g.board, position)
    \cup SpecialMoves(g, g.board, position)


---------------------------------------------------------------------------
(* Legality checker                                                        *)

\* The engine's fields as one value
Engine(b, h, mh, bh, occ, ep, hp, hc, c, pk, sh) ==
    [board |-> b, half_moves |-> h, moves_history |-> mh, board_history |-> bh,
     position_occurence |-> occ, en_passant |-> ep,
     half_moves_since_pawn_moved |-> hp, half_moves_since_capture |-> hc,
     castling |-> c, pocket |-> pk, shared |-> sh]

\* load_history takes the board and the occurrence table out of a snapshot
\* without copying them (lines 326-332): while that snapshot stays on the
\* stack, what the engine writes into its board and its table is written into
\* the snapshot as well.
WriteThrough(g) ==
    IF g.shared = 0 THEN g
    ELSE [g EXCEPT !.board_history =
            [@ EXCEPT ![g.shared] =
                [@ EXCEPT !.board = g.board,
                          !.position_occurence = g.position_occurence]]]

\* The first of the positions in the order of a board scan, as in
\* find_pieces(...)[0]: the board is scanned rank by rank from a1, each rank
\* from file a to file h
First(positions) == CHOOSE p \in positions : \A q \in positions : p <= q

\* The en-passant pawn removed from the engine's own board instead of the copy
ScratchRelocateRemovesOnBoard(g, move) ==
    LET test_piece == GetPiece(g.board, move.source)
        relocated == PutPiece(RemovePiece(g.board, move.source), test_piece, move.destination)
        behind == StandardPosition(FileOf(move.destination), RankOf(move.source))
        is_en_passant == KindOf(test_piece) = "Pawn" /\ g.en_passant = <<move.destination>>
    IN  [board |-> IF is_en_passant THEN RemovePiece(g.board, behind) ELSE g.board,
         test_board |-> IF is_en_passant THEN RemovePiece(relocated, behind) ELSE relocated]

\* assert_move, lines 206-211: the relocation on the scratch copy of the board.
\* board is the engine's own board afterwards, test_board the scratch copy.
ScratchRelocate(g, move) ==
    LET test_piece == GetPiece(g.board, move.source)
        relocated == PutPiece(RemovePiece(g.board, move.source), test_piece, move.destination)
        test_board ==
            IF KindOf(test_piece) = "Pawn" /\ g.en_passant = <<move.destination>>
            THEN RemovePiece(relocated,
                             StandardPosition(FileOf(move.destination), RankOf(move.source)))
            ELSE relocated
    IN  [board |-> g.board, test_board |-> test_board]

\* assert_move without its self-check test
AssertMoveOutNoSelfCheck(g, move) ==
    LET piece == GetPiece(g.board, move.source) IN
    IF piece = None THEN "NoPiece"
    ELSE IF move.destination \notin AvailableDest(g, move.source) THEN "NotAValidMove"
    ELSE IF KindOf(piece) = "Pawn" /\ RankOf(move.destination) \in {7, 0}
            /\ move.promotion = NoPromotion
    THEN "NotAValidPromotion"
    ELSE "ok"

\* Normal.assert_move: "ok" when it returns, else the exception it raises
AssertMoveOut(g, move) ==
    LET piece == GetPiece(g.board, move.source) IN
    IF piece = None THEN "NoPiece"
    ELSE IF move.destination \notin AvailableDest(g, move.source) THEN "NotAValidMove"
    ELSE LET test_board == ScratchRelocate(g, move).test_board
             kings == FindPieces(test_board, King(OnMove(g.half_moves)))
         IN  IF kings = {} THEN "IndexError"
             ELSE IF First(kings) \in AttackedFieldsBySides(test_board, OtherSides(SideOf(piece)))
             THEN "CausesCheck"
             ELSE IF KindOf(piece) = "Pawn" /\ RankOf(move.destination) \in {7, 0}
                     /\ move.promotion = NoPromotion
             THEN "NotAValidPromotion"
             ELSE "ok"

\* Normal.assert_move: the engine after the call
AssertMoveEngine(g, move) ==
    IF GetPiece(g.board, move.source) = None
       \/ move.destination \notin AvailableDest(g, move.source)
    THEN g
    ELSE [g EXCEPT !.board = ScratchRelocate(g, move).board]

\* Normal.save_history
SaveHistory(g) ==
    [g EXCEPT !.board_history =
        Append(@, [board |-> g.board,
                   half_moves |-> g.half_moves,
                   position_occurence |-> g.position_occurence,
                   en_passant |-> g.en_passant,
                   half_moves_since_pawn_moved |-> g.half_moves_since_pawn_moved,
                   half_moves_since_capture |-> g.half_moves_since_capture,
                   castling |-> g.castling])]

\* __update_castling_info with the rights toggled (^) instead of removed (-)
UpdateCastlingInfoToggle(c, source, destination) ==
    LET Toggle(set, pieces) == (set \ pieces) \cup (pieces \ set)
        c1 == IF c = {} THEN c
              ELSE IF FromStr("e", 1) = source THEN Toggle(c, {King(White), Queen(White)})
              ELSE IF FromStr("a", 1) \in {source, destination} THEN Toggle(c, {Queen(White)})
              ELSE IF FromStr("h", 1) \in {source, destination} THEN Toggle(c, {King(White)})
              ELSE c
    IN  IF c = {} THEN c
        ELSE IF FromStr("e", 8) = source THEN Toggle(c1, {King(Black), Queen(Black)})
        ELSE IF FromStr("a", 8) \in {source, destination} THEN Toggle(c1, {Queen(Black)})
        ELSE IF FromStr("h", 8) \in {source, destination} THEN Toggle(c1, {King(Black)})
        ELSE c1

\* __update_castling_info looking at the source of the move only
UpdateCastlingInfoSourceOnly(c, source, destination) ==
    LET c1 == IF c = {} THEN c
              ELSE IF FromStr("e", 1) = source THEN c \ {King(White), Queen(White)}
              ELSE IF FromStr("a", 1) = source THEN c \ {Queen(White)}
              ELSE IF FromStr("h", 1) = source THEN c \ {King(White)}
              ELSE c
    IN  IF c = {} THEN c
        ELSE IF FromStr("e", 8) = source THEN c1 \ {King(Black), Queen(Black)}
        ELSE IF FromStr("a", 8) = source THEN c1 \ {Queen(Black)}
        ELSE IF FromStr("h", 8) = source THEN c1 \ {King(Black)}
        ELSE c1

\* Normal.__update_castling_info
UpdateCastlingInfo(c, source, destination) ==
    LET c1 == IF c = {} THEN c
              ELSE IF FromStr("e", 1) = source THEN c \ {King(White), Queen(White)}
              ELSE IF FromStr("a", 1) \in {source, destination} THEN c \ {Queen(White)}
              ELSE IF FromStr("h", 1) \in {source, destination} THEN c \ {King(White)}
              ELSE c
    IN  IF c = {} THEN c
        ELSE IF FromStr("e", 8) = source THEN c1 \ {King(Black), Queen(Black)}
        ELSE IF FromStr("a", 8) \in {source, destination} THEN c1 \ {Queen(Black)}
        ELSE IF FromStr("h", 8) \in {source, destination} THEN c1 \ {King(Black)}
        ELSE c1

\* self.__position_occurence[key] += 1 on a defaultdict(int)
Increment(occ, key) ==
    IF key \in DOMAIN occ THEN [occ EXCEPT ![key] = @ + 1]
    ELSE [k \in DOMAIN occ \cup {key} |-> IF k = key THEN 1 ELSE occ[k]]

Abs(x) == IF x < 0 THEN -x ELSE x

\* The relocation without the promotion's substitution: the pawn stays a pawn
RelocateNoPromotion(g, move) ==
    LET source == move.source
        destination == move.destination
        moved_piece == GetPiece(g.board, source)
        removed == RemovePiece(g.board, source)
        displaced == GetPiece(removed, destination)
        put == PutPiece(removed, moved_piece, destination)
        behind == StandardPosition(FileOf(destination), RankOf(source))
        is_en_passant == g.en_passant = <<destination>>
    IN  IF KindOf(moved_piece) = "Pawn"
        THEN [board |-> IF is_en_passant THEN RemovePiece(put, behind) ELSE put,
              taken_piece |-> IF is_en_passant THEN GetPiece(put, behind) ELSE displaced,
              en_passant |-> IF Abs(RankOf(source) - RankOf(destination)) = 2
                             THEN <<StandardPosition(FileOf(source),
                                       (RankOf(source) + RankOf(destination)) \div 2)>>
                             ELSE None,
              half_moves_since_pawn_moved |-> 0]
        ELSE [board |-> put,
              taken_piece |-> displaced,
              en_passant |-> None,
              half_moves_since_pawn_moved |-> g.half_moves_since_pawn_moved + 1]

\* The relocation that keeps the en-passant target when another piece than a pawn moves
RelocateKeepsEnPassant(g, move) ==
    LET source == move.source
        destination == move.destination
        on_move == OnMove(g.half_moves)
        moved_piece == GetPiece(g.board, source)
        removed == RemovePiece(g.board, source)
        displaced == GetPiece(removed, destination)
        put == PutPiece(removed, moved_piece, destination)
        behind == StandardPosition(FileOf(destination), RankOf(source))
        is_en_passant == g.en_passant = <<destination>>
        after_capture == IF is_en_passant THEN RemovePiece(put, behind) ELSE put
    IN  IF KindOf(moved_piece) = "Pawn"
        THEN [board |-> IF RankOf(destination) \in {7, 0}
                        THEN PutPiece(after_capture, <<move.promotion, on_move>>, destination)
                        ELSE after_capture,
              taken_piece |-> IF is_en_passant THEN GetPiece(put, behind) ELSE displaced,
              en_passant |-> IF Abs(RankOf(source) - RankOf(destination)) = 2
                             THEN <<StandardPosition(FileOf(source),
                                       (RankOf(source) + RankOf(destination)) \div 2)>>
                             ELSE None,
              half_moves_since_pawn_moved |-> 0]
        ELSE [board |-> put,
              taken_piece |-> displaced,
              en_passant |-> g.en_passant,
              half_moves_since_pawn_moved |-> g.half_moves_since_pawn_moved + 1]

\* Normal.move, lines 239-261: relocation, en passant, promotion and the pawn counter.
\* Gives the board, the taken piece, the en-passant target and the pawn counter.
Relocate(g, move) ==
    LET source == move.source
        destination == move.destination
        on_move == OnMove(g.half_moves)
        moved_piece == GetPiece(g.board, source)
        removed == RemovePiece(g.board, source)
        displaced == GetPiece(removed, destination)
        put == PutPiece(removed, moved_piece, destination)
        behind == StandardPosition(FileOf(destination), RankOf(source))
        is_en_passant == g.en_passant = <<destination>>
        after_capture == IF is_en_passant THEN RemovePiece(put, behind) ELSE put
    IN  IF KindOf(moved_piece) = "Pawn"
        THEN [board |-> IF RankOf(destination) \in {7, 0}
                        THEN PutPiece(after_capture, <<move.promotion, on_move>>, destination)
                        ELSE after_capture,
              taken_piece |-> IF is_en_passant THEN GetPiece(put, behind) ELSE displaced,
              en_passant |-> IF Abs(RankOf(source) - RankOf(destination)) = 2
                             THEN <<StandardPosition(FileOf(source),
                                       (RankOf(source) + RankOf(destination)) \div 2)>>
                             ELSE None,
              half_moves_since_pawn_moved |-> 0]
        ELSE [board |-> put,
              taken_piece |-> displaced,
              en_passant |-> None,
              half_moves_since_pawn_moved |-> g.half_moves_since_pawn_moved + 1]

\* the rook's part with the king-side branch only
CastleRookKingSideOnly(b, moved_piece, move) ==
    LET rank == RankOf(move.source) IN
    IF KindOf(moved_piece) = "King"
       /\ Abs(FileOf(move.source) - FileOf(move.destination)) = 2
       /\ FileOf(move.destination) = 6
    THEN PutPiece(RemovePiece(b, StandardPosition(7, rank)),
                  GetPiece(b, StandardPosition(7, rank)), StandardPosition(5, rank))
    ELSE b

\* Normal.move, lines 263-271: the rook's part of a castling move
CastleRook(b, moved_piece, move) ==
    LET rank == RankOf(move.source) IN
    IF KindOf(moved_piece) = "King"
       /\ Abs(FileOf(move.source) - FileOf(move.destination)) = 2
    THEN IF FileOf(move.destination) = 6
         THEN PutPiece(RemovePiece(b, StandardPosition(7, rank)),
                       GetPiece(b, StandardPosition(7, rank)), StandardPosition(5, rank))
         ELSE IF FileOf(move.destination) = 2
         THEN PutPiece(RemovePiece(b, StandardPosition(0, rank)),
                       GetPiece(b, StandardPosition(0, rank)), StandardPosition(3, rank))
         ELSE b
    ELSE b

\* the commit that counts a capture like any other move and pockets it
CommitCountsCaptures(g, move) ==
    LET saved == SaveHistory(g)
        on_move == OnMove(g.half_moves)
        moved_piece == GetPiece(g.board, move.source)
        r == Relocate(g, move)
        final == CastleRook(r.board, moved_piece, move)
    IN  WriteThrough([saved EXCEPT
            !.board = final,
            !.en_passant = r.en_passant,
            !.half_moves_since_pawn_moved = r.half_moves_since_pawn_moved,
            !.half_moves_since_capture = @ + 1,
            !.pocket = IF r.taken_piece = None THEN @
                       ELSE [@ EXCEPT ![on_move] = Append(@, r.taken_piece)],
            !.castling = UpdateCastlingInfo(@, move.source, move.destination),
            !.position_occurence = Increment(@, BoardHash(final)),
            !.moves_history = Append(@, move),
            !.half_moves = @ + 1])

\* Normal.move, lines 238-284: the commit of an accepted move
Commit(g, move) ==
    LET saved == SaveHistory(g)
        on_move == OnMove(g.half_moves)
        moved_piece == GetPiece(g.board, move.source)
        r == Relocate(g, move)
        final == CastleRook(r.board, moved_piece, move)
    IN  WriteThrough([saved EXCEPT
            !.board = final,
            !.en_passant = r.en_passant,
            !.half_moves_since_pawn_moved = r.half_moves_since_pawn_moved,
            !.half_moves_since_capture = IF r.taken_piece = None THEN @ + 1 ELSE 0,
            !.pocket = IF r.taken_piece = None THEN @
                       ELSE [@ EXCEPT ![on_move] = Append(@, r.taken_piece)],
            !.castling = UpdateCastlingInfo(@, move.source, move.destination),
            !.position_occurence = Increment(@, BoardHash(final)),
            !.moves_history = Append(@, move),
            !.half_moves = @ + 1])

\* move without its turn-order test
MoveOutAnySide(g, move) == AssertMoveOut(g, move)

\* Normal.move: what the call raises, or "ok"
MoveOut(g, move) ==
    LET out == AssertMoveOut(g, move) IN
    IF out # "ok" THEN out
    ELSE IF SideOf(GetPiece(g.board, move.source)) # OnMove(g.half_moves) THEN "WrongMoveOrder"
    ELSE "ok"

\* move with the snapshot pushed before the turn-order test
MoveEngineSavesFirst(g, move) ==
    LET checked == AssertMoveEngine(g, move) IN
    IF MoveOut(g, move) = "ok" THEN Commit(checked, move)
    ELSE IF AssertMoveOut(g, move) = "ok" THEN SaveHistory(checked)
    ELSE checked

\* Normal.move: the engine after the call
MoveEngine(g, move) ==
    LET checked == AssertMoveEngine(g, move) IN
    IF MoveOut(g, move) = "ok" THEN Commit(checked, move) ELSE checked


---------------------------------------------------------------------------
(* History manager                                                         *)

Min(x, y) == IF x < y THEN x ELSE y
Max(x, y) == IF x < y THEN y ELSE x

\* the index taken one snapshot too early
HistoryIndexOneEarly(g, offset) == g.half_moves - offset - 2

\* the index half_moves - offset - 1 of load_history
HistoryIndex(g, offset) == g.half_moves - offset - 1

\* a Python list index: negative indices count from the end; 0 when out of range,
\* else the one-based place in the sequence
ListPlace(index, length) ==
    IF index >= length \/ index < -length THEN 0
    ELSE IF index < 0 THEN index + length + 1
    ELSE index + 1

\* the loop popping the move history only
PopLoopKeepsSnapshots(mh, bh, offset) ==
    LET rounds == Max(offset, 0)
        whole == Min(rounds, Len(mh))
    IN  [moves_history |-> SubSeq(mh, 1, Len(mh) - whole),
         board_history |-> bh,
         out |-> IF whole < rounds THEN "IndexError" ELSE "ok"]

\* The `for _ in range(offset)` loop of load_history: each round pops the move
\* history, then the snapshot stack; a pop from an empty list raises IndexError.
PopLoop(mh, bh, offset) ==
    LET rounds == Max(offset, 0)
        whole == Min(rounds, Min(Len(mh), Len(bh)))
        raises == whole < rounds
        half == IF raises /\ Len(mh) > whole THEN 1 ELSE 0
    IN  [moves_history |-> SubSeq(mh, 1, Len(mh) - whole - half),
         board_history |-> SubSeq(bh, 1, Len(bh) - whole),
         out |-> IF raises THEN "IndexError" ELSE "ok"]

\* Normal.load_history: what the call raises, or "ok"
LoadHistoryOut(g, offset) ==
    IF ListPlace(HistoryIndex(g, offset), Len(g.board_history)) = 0 THEN "IndexError"
    ELSE PopLoop(g.moves_history, g.board_history, offset).out

\* load_history that leaves the repetition table as it is
LoadHistoryEngineKeepsOccurrences(g, offset) ==
    LET place == ListPlace(HistoryIndex(g, offset), Len(g.board_history)) IN
    IF place = 0 THEN g
    ELSE LET snapshot == g.board_history[place]
             popped == PopLoop(g.moves_history, g.board_history, offset)
         IN  [g EXCEPT
                 !.board = snapshot.board,
                 !.half_moves = snapshot.half_moves,
                 !.en_passant = snapshot.en_passant,
                 !.half_moves_since_pawn_moved = snapshot.half_moves_since_pawn_moved,
                 !.half_moves_since_capture = snapshot.half_moves_since_capture,
                 !.castling = snapshot.castling,
                 !.moves_history = popped.moves_history,
                 !.board_history = popped.board_history,
                 !.shared = IF place <= Len(popped.board_history) THEN place ELSE 0]

\* Normal.load_history: the engine after the call
LoadHistoryEngine(g, offset) ==
    LET place == ListPlace(HistoryIndex(g, offset), Len(g.board_history)) IN
    IF place = 0 THEN g
    ELSE LET snapshot == g.board_history[place]
             popped == PopLoop(g.moves_history, g.board_history, offset)
         IN  [g EXCEPT
                 !.board = snapshot.board,
                 !.half_moves = snapshot.half_moves,
                 !.position_occurence = snapshot.position_occurence,
                 !.en_passant = snapshot.en_passant,
                 !.half_moves_since_pawn_moved = snapshot.half_moves_since_pawn_moved,
                 !.half_moves_since_capture = snapshot.half_moves_since_capture,
                 !.castling = snapshot.castling,
                 !.moves_history = popped.moves_history,
                 !.board_history = popped.board_history,
                 !.shared = IF place <= Len(popped.board_history) THEN place ELSE 0]

---------------------------------------------------------------------------
(* Game-state evaluator                                                    *)

\* Which exceptions of assert_move an `except NotAValidMove` clause catches
CaughtAsNotAValidMove(out) == out \in {"NotAValidMove", "CausesCheck", "NotAValidPromotion"}

\* what a call hands back: its value when it returns, the exception when it raises
Returned(value) == [out |-> "ok", value |-> value]
Raised(exception) == [out |-> exception, value |-> FALSE]

\* Normal.can_i_make_a_move from the piece at the head of the scan on (lines
\* 570-578): the pieces of the side on move are taken in the order of
\* board.pieces; for each piece its standard captures are tried, then its
\* standard moves, then its special moves, each destination with
\* assert_move(StandardMove(pos, dest)). A candidate that raises a
\* NotAValidMove is skipped; the first candidate that does not decides the
\* call: True when assert_move returns, and the IndexError of assert_move
\* (line 213) when it raises that, which no clause catches. The pieces are
\* taken in the order of the board scan. One destination set is a Python set,
\* iterated (line 573) in the order of its hash table: that order follows
\* from the hash of the positions, which the source does not fix, so any
\* destination of the set that is not skipped may be the first one met. The
\* result is the set of the ways the call can end: one element for each
\* outcome of a candidate not skipped in the first set that has one.
RECURSIVE ScanPieces(_, _)
ScanPieces(g, positions) ==
    IF positions = {} THEN {Returned(FALSE)}
    ELSE LET pos == First(positions)
             moves == << StandardCaptures(g, g.board, pos), StandardMoves(g.board, pos),
                         SpecialMoves(g, g.board, pos) >>
             Tried(dest) == AssertMoveOut(g, StandardMove(pos, dest, NoPromotion))
             NotSkipped(i) == {out \in {Tried(dest) : dest \in moves[i]} :
                                  ~CaughtAsNotAValidMove(out)}
             deciding == IF NotSkipped(1) # {} THEN NotSkipped(1)
                         ELSE IF NotSkipped(2) # {} THEN NotSkipped(2)
                         ELSE NotSkipped(3)
         IN  IF deciding = {} THEN ScanPieces(g, positions \ {pos})
             ELSE {IF decided = "ok" THEN Returned(TRUE) ELSE Raised(decided) :
                     decided \in deciding}

\* Normal.can_i_make_a_move, as the set of the ways the call can end: True
\* at the first candidate assert_move accepts, False when every candidate
\* raises a NotAValidMove; an IndexError of assert_move met before any
\* accepted candidate ends the call. The set has two elements when the first
\* destination set with a candidate not skipped holds both an accepted one
\* and one that raises the IndexError.
CanIMakeAMove(g) ==
    ScanPieces(g, {p \in PiecesOn(g.board) : SideOf(g.board[p]) = OnMove(g.half_moves)})

\* Normal.all_available_moves: the moves it returns, or the IndexError of
\* assert_move that `except NotAValidMove` lets through (a candidate that takes
\* the only king of the side on move, or no such king on the board)
AllAvailableMoves(g, side) ==
    LET candidates == UNION { { StandardMove(pos, destination, NoPromotion) :
                                  destination \in AvailableDest(g, pos) } :
                              pos \in {p \in PiecesOn(g.board) : SideOf(g.board[p]) = side} }
        outs == [move \in candidates |-> AssertMoveOut(g, move)]
    IN  IF \E move \in candidates : outs[move] = "IndexError"
        THEN [out |-> "IndexError", moves |-> {}]
        ELSE [out |-> "ok",
              moves |-> {move \in candidates : ~CaughtAsNotAValidMove(outs[move])}]

\* what game_state hands back: the pair it returns, or the exception it raises
Verdict(winners, reason) == [out |-> "ok", winners |-> winners, reason |-> reason]
NoVerdict(exception) == [out |-> exception, winners |-> None, reason |-> "None"]

\* game_state with the test for check mate and stalemate made first
GameStateMateFirst(g) ==
    LET pieces == {g.board[p] : p \in PiecesOn(g.board)}
        all == {sides[i] : i \in 1..Len(sides)}
        on_move == OnMove(g.half_moves)
        kings == {King(White), King(Black)}
        After(can) ==
          IF can.out # "ok" THEN NoVerdict(can.out)
        ELSE IF ~can.value
        THEN IF FindPieces(g.board, King(on_move)) = {} THEN NoVerdict("IndexError")
             ELSE IF First(FindPieces(g.board, King(on_move)))
                        \in AttackedFieldsBySides(g.board, OtherSides(on_move))
             THEN Verdict(all \ {on_move}, "check mate")
             ELSE Verdict(all, "stalemate")
        ELSE IF Cardinality(pieces) < 4
           /\ (\/ pieces = kings
               \/ \E minor \in {Knight(White), Knight(Black), Bishop(White), Bishop(Black)} :
                        pieces = kings \cup {minor})
        THEN Verdict(all, "insufficient material")
        ELSE IF g.half_moves_since_pawn_moved >= 50 /\ g.half_moves_since_capture >= 50
        THEN Verdict(all, "fifty-move rule")
        ELSE IF \E key \in DOMAIN g.position_occurence : g.position_occurence[key] >= 3
        THEN Verdict(all, "threefold repetition")
        ELSE Verdict(None, "None")
    IN  {After(can) : can \in CanIMakeAMove(g)}

\* Normal.game_state, as the set of the ways the call can end: the winning
\* sides (or None) and the reason (or None) it returns, or the IndexError it
\* raises when the side on move has no king (through can_i_make_a_move, or at
\* line 155). The call can end in more than one way only where
\* can_i_make_a_move can, and only when the call gets as far as asking it.
GameState(g) ==
    LET pieces == {g.board[p] : p \in PiecesOn(g.board)}
        all == {sides[i] : i \in 1..Len(sides)}
        on_move == OnMove(g.half_moves)
        kings == {King(White), King(Black)}
        lone_minor == /\ Cardinality(pieces) < 4
                      /\ \E minor \in {Knight(White), Knight(Black),
                                        Bishop(White), Bishop(Black)} :
                              pieces = kings \cup {minor}
        After(can) ==
          IF Cardinality(pieces) < 4 /\ pieces = kings
        THEN Verdict(all, "insufficient material")
        ELSE IF lone_minor /\ can.out # "ok"
        THEN NoVerdict(can.out)
        ELSE IF lone_minor /\ ~can.value
        THEN Verdict(all, "insufficient material")
        ELSE IF g.half_moves_since_pawn_moved >= 50 /\ g.half_moves_since_capture >= 50
        THEN Verdict(all, "fifty-move rule")
        ELSE IF \E key \in DOMAIN g.position_occurence : g.position_occurence[key] >= 3
        THEN Verdict(all, "threefold repetition")
        ELSE IF can.out # "ok"
        THEN NoVerdict(can.out)
        ELSE IF ~can.value
        THEN IF FindPieces(g.board, King(on_move)) = {} THEN NoVerdict("IndexError")
             ELSE IF First(FindPieces(g.board, King(on_move)))
                        \in AttackedFieldsBySides(g.board, OtherSides(on_move))
             THEN Verdict(all \ {on_move}, "check mate")
             ELSE Verdict(all, "stalemate")
        ELSE Verdict(None, "None")
    IN  {After(can) : can \in CanIMakeAMove(g)}

\* the castling field of __str__: the sorted piece letters, or "-"
CastlingStr(c) ==
    IF c = {} THEN <<"-">>
    ELSE SelectSeq(<<"K", "Q", "k", "q">>, LAMBDA letter : letter \in {PieceStr(piece) : piece \in c})

\* Normal.__str__
Str(g) ==
    [board |-> GetFen(g.board),
     on_move |-> OnMove(g.half_moves),
     castling |-> CastlingStr(g.castling),
     en_passant |-> IF g.en_passant # None THEN PositionStr(g.en_passant[1]) ELSE <<"-">>,
     half_since_pawn |-> Min(g.half_moves_since_pawn_moved, g.half_moves_since_capture),
     moves |-> FullMoves(g.half_moves)]


---------------------------------------------------------------------------
(* The clients and the bounds of the model                                 *)

\* Each client plays moves of its own repertoire, up to its own number of plies.
ShuttlePlies == 50
RookPlies == 10
CastlePlies == 9
PawnPlies == 9
OpenPlies == 4
QueenSidePlies == 7
SetupPlies == 3
RepeatPlies == 103
KeeperPlies == 2
\* how many calls other than move and assert_move a keeper makes in one game
MaxKeeperCalls == 2
MaxRollbacks == 1
\* the same bounds for the clients that return to a snapshot they have
\* played on ("stale", "mirror", "fork")
StaleCalls == 3
StaleRollbacks == 2
StaleOffset == 1
MaxOffset == 3

\* the clients that play from the standard initial layout
Callers == {"shuttle", "rooks", "castle", "pawn", "open", "queenside", "keeper"}

\* the clients that compose a position on an empty board before they play
SetupCallers == {"bishop", "knight", "corner", "lastrank", "queen", "repeat", "bare",
                 "composer", "kingless", "alone", "stale", "mirror", "fork"}

\* the clients that save a snapshot, return to it with load_history(0),
\* play on and return to it again: the king takes the pawn that has just made
\* its double step, and the second return brings back that pawn's en-passant
\* target with the king standing where the pawn stood, beside White's own
\* pawn. In "stale" the king stands on d5, before the pawn e5 in the board
\* scan; in "mirror" it stands on f5, after it. In "fork" the pawn b5 comes
\* before the king c5 and has a second capture, of the pawn a6, in the same
\* destination set as the capture on the stale en-passant target c6.
Returners == {"stale", "mirror", "fork"}

Repertoire(c) ==
    CASE c = "shuttle" ->
            { MoveOf("g", 1, "f", 3, NoPromotion), MoveOf("f", 3, "g", 1, NoPromotion),
              MoveOf("g", 8, "f", 6, NoPromotion), MoveOf("f", 6, "g", 8, NoPromotion) }
      [] c = "rooks" ->
            { MoveOf("g", 1, "f", 3, NoPromotion), MoveOf("g", 8, "f", 6, NoPromotion),
              MoveOf("h", 1, "g", 1, NoPromotion), MoveOf("g", 1, "h", 1, NoPromotion),
              MoveOf("h", 8, "g", 8, NoPromotion), MoveOf("g", 8, "h", 8, NoPromotion) }
      [] c = "castle" ->
            { MoveOf("g", 1, "f", 3, NoPromotion), MoveOf("e", 2, "e", 3, NoPromotion),
              MoveOf("f", 1, "e", 2, NoPromotion), MoveOf("d", 2, "d", 3, NoPromotion),
              MoveOf("e", 1, "g", 1, NoPromotion),
              MoveOf("e", 7, "e", 6, NoPromotion), MoveOf("a", 7, "a", 6, NoPromotion),
              MoveOf("a", 6, "a", 5, NoPromotion), MoveOf("f", 8, "b", 4, NoPromotion) }
      [] c = "pawn" ->
            { MoveOf("a", 2, "a", 4, NoPromotion), MoveOf("a", 4, "a", 5, NoPromotion),
              MoveOf("a", 5, "b", 6, NoPromotion), MoveOf("b", 6, "a", 7, NoPromotion),
              MoveOf("a", 7, "b", 8, NoPromotion), MoveOf("a", 7, "b", 8, "Queen"),
              MoveOf("a", 7, "b", 8, "King"),
              MoveOf("a", 7, "b", 8, "Knight"),
              MoveOf("b", 6, "b", 7, NoPromotion), MoveOf("b", 7, "a", 8, "Queen"),
              MoveOf("g", 1, "f", 3, NoPromotion),
              MoveOf("b", 7, "b", 5, NoPromotion),
              MoveOf("g", 8, "f", 6, NoPromotion), MoveOf("f", 6, "g", 8, NoPromotion) }
      [] c = "open" ->
            { MoveOf("e", 2, "e", 4, NoPromotion), MoveOf("e", 4, "d", 5, NoPromotion),
              MoveOf("f", 2, "f", 3, NoPromotion), MoveOf("g", 2, "g", 4, NoPromotion),
              MoveOf("d", 7, "d", 5, NoPromotion), MoveOf("d", 8, "d", 5, NoPromotion),
              MoveOf("e", 7, "e", 5, NoPromotion), MoveOf("d", 8, "h", 4, NoPromotion),
              MoveOf("e", 8, "e", 7, NoPromotion) }
      [] c = "queenside" ->
            { MoveOf("d", 2, "d", 4, NoPromotion), MoveOf("c", 1, "f", 4, NoPromotion),
              MoveOf("d", 1, "d", 3, NoPromotion), MoveOf("b", 1, "c", 3, NoPromotion),
              MoveOf("e", 1, "c", 1, NoPromotion),
              MoveOf("a", 7, "a", 6, NoPromotion), MoveOf("a", 6, "a", 5, NoPromotion),
              MoveOf("a", 5, "a", 4, NoPromotion) }
      [] c = "bishop" ->
            { MoveOf("c", 1, "b", 2, NoPromotion), MoveOf("c", 1, "d", 2, NoPromotion),
              MoveOf("b", 1, "a", 1, NoPromotion), MoveOf("b", 1, "c", 1, NoPromotion),
              MoveOf("h", 8, "g", 8, NoPromotion), MoveOf("h", 8, "g", 7, NoPromotion) }
      [] c = "knight" ->
            { MoveOf("a", 1, "b", 1, NoPromotion), MoveOf("a", 1, "a", 2, NoPromotion),
              MoveOf("g", 8, "f", 6, NoPromotion), MoveOf("g", 8, "h", 6, NoPromotion),
              MoveOf("h", 8, "g", 7, NoPromotion), MoveOf("g", 8, "g", 6, NoPromotion) }
      [] c = "corner" ->
            { MoveOf("d", 6, "c", 7, NoPromotion), MoveOf("d", 6, "e", 5, NoPromotion),
              MoveOf("b", 6, "a", 6, NoPromotion), MoveOf("a", 8, "b", 8, NoPromotion),
              MoveOf("a", 8, "a", 7, NoPromotion), MoveOf("a", 8, "b", 7, NoPromotion) }
      [] c = "lastrank" ->
            { MoveOf("a", 7, "a", 8, NoPromotion), MoveOf("a", 7, "a", 8, "Queen"),
              MoveOf("a", 7, "a", 8, "Knight"), MoveOf("h", 1, "h", 2, NoPromotion),
              MoveOf("h", 1, "g", 1, NoPromotion), MoveOf("f", 2, "f", 1, NoPromotion),
              MoveOf("d", 6, "b", 8, NoPromotion), MoveOf("d", 6, "h", 2, NoPromotion) }
      [] c = "keeper" ->
            { MoveOf("e", 2, "e", 4, NoPromotion), MoveOf("e", 7, "e", 5, NoPromotion),
              MoveOf("g", 8, "f", 6, NoPromotion) }
      [] c = "kingless" ->
            { MoveOf("a", 1, "a", 8, NoPromotion), MoveOf("h", 8, "g", 8, NoPromotion) }
      [] c = "alone" ->
            { MoveOf("h", 8, "g", 8, NoPromotion) }
      [] c = "composer" ->
            { MoveOf("c", 3, "c", 4, NoPromotion), MoveOf("f", 6, "f", 5, NoPromotion),
              MoveOf("e", 2, "e", 4, NoPromotion) }
      [] c = "stale" ->
            { MoveOf("e", 3, "e", 4, NoPromotion), MoveOf("d", 7, "d", 5, NoPromotion),
              MoveOf("e", 4, "d", 5, NoPromotion) }
      [] c = "mirror" ->
            { MoveOf("e", 3, "e", 4, NoPromotion), MoveOf("f", 7, "f", 5, NoPromotion),
              MoveOf("e", 4, "f", 5, NoPromotion) }
      [] c = "fork" ->
            { MoveOf("b", 3, "b", 4, NoPromotion), MoveOf("c", 7, "c", 5, NoPromotion),
              MoveOf("b", 4, "c", 5, NoPromotion) }
      [] c = "repeat" ->
            { MoveOf("c", 2, "c", 3, NoPromotion), MoveOf("c", 3, "c", 2, NoPromotion),
              MoveOf("c", 3, "h", 8, NoPromotion),
              MoveOf("a", 8, "b", 8, NoPromotion), MoveOf("b", 8, "a", 8, NoPromotion) }
      [] c = "bare" ->
            { MoveOf("a", 1, "b", 1, NoPromotion), MoveOf("b", 1, "a", 1, NoPromotion),
              MoveOf("h", 8, "g", 8, NoPromotion), MoveOf("g", 8, "h", 8, NoPromotion) }
      [] c = "queen" ->
            { MoveOf("c", 2, "c", 8, NoPromotion), MoveOf("c", 2, "c", 7, NoPromotion),
              MoveOf("c", 2, "c", 6, NoPromotion), MoveOf("b", 6, "a", 6, NoPromotion),
              MoveOf("a", 8, "b", 8, NoPromotion), MoveOf("a", 8, "a", 7, NoPromotion),
              MoveOf("a", 8, "b", 7, NoPromotion) }

PlyBound(c) ==
    CASE c = "shuttle" -> ShuttlePlies
      [] c = "rooks" -> RookPlies
      [] c = "castle" -> CastlePlies
      [] c = "pawn" -> PawnPlies
      [] c = "open" -> OpenPlies
      [] c = "queenside" -> QueenSidePlies
      [] c \in {"repeat", "bare"} -> RepeatPlies
      [] c \in {"keeper", "composer"} -> KeeperPlies
      [] c \in SetupCallers \ {"repeat", "bare", "composer"} -> SetupPlies

\* how many calls other than move and assert_move a keeper makes, and how
\* many of load_history a client makes
CallBound(c) == IF c \in Returners THEN StaleCalls ELSE MaxKeeperCalls
RollbackBound(c) == IF c \in Returners THEN StaleRollbacks ELSE MaxRollbacks

\* the offsets a client hands to load_history
Offsets(c) == IF c \in Returners THEN 0..StaleOffset ELSE -1..MaxOffset

---------------------------------------------------------------------------
(* The state machine                                                       *)

\* Normal.init_board_state
BackRank == <<"Rook", "Knight", "Bishop", "Queen", "King", "Bishop", "Knight", "Rook">>
InitBoardState ==
    [p \in Squares |->
        CASE RankOf(p) = 0 -> <<BackRank[FileOf(p) + 1], White>>
          [] RankOf(p) = 1 -> Pawn(White)
          [] RankOf(p) = 6 -> Pawn(Black)
          [] RankOf(p) = 7 -> <<BackRank[FileOf(p) + 1], Black>>
          [] OTHER -> None]

\* Normal.init_board_state on a game: the 32 pieces are put on their squares
\* of the engine's board, whatever stands elsewhere stays
InitBoardStateEngine(g) ==
    WriteThrough([g EXCEPT !.board =
        [p \in Squares |-> IF InitBoardState[p] # None THEN InitBoardState[p] ELSE g.board[p]]])

NoMove == [source |-> -1, destination |-> -1, promotion |-> NoPromotion]
Call(op, out, move, offset) == [op |-> op, out |-> out, move |-> move, offset |-> offset]
Idle == Call("idle", "ok", NoMove, -1)

\* the engine as the variables hold it
Game == Engine(board, half_moves, moves_history, board_history, position_occurence,
               en_passant, half_moves_since_pawn_moved, half_moves_since_capture,
               castling, pocket, shared)

\* the fields of the engine that a snapshot keeps, with the move history
Observed(g) ==
    [board |-> g.board, half_moves |-> g.half_moves,
     position_occurence |-> g.position_occurence, en_passant |-> g.en_passant,
     half_moves_since_pawn_moved |-> g.half_moves_since_pawn_moved,
     half_moves_since_capture |-> g.half_moves_since_capture,
     castling |-> g.castling, moves_history |-> g.moves_history]

\* the variables take the engine g
Install(g) ==
    /\ board' = g.board
    /\ half_moves' = g.half_moves
    /\ moves_history' = g.moves_history
    /\ board_history' = g.board_history
    /\ position_occurence' = g.position_occurence
    /\ en_passant' = g.en_passant
    /\ half_moves_since_pawn_moved' = g.half_moves_since_pawn_moved
    /\ half_moves_since_capture' = g.half_moves_since_capture
    /\ castling' = g.castling
    /\ pocket' = g.pocket
    /\ shared' = g.shared

\* Normal.__init__
Init ==
    /\ board = InitBoardState
    /\ half_moves = 1
    /\ moves_history = <<>>
    /\ board_history = <<>>
    /\ position_occurence = <<>>
    /\ en_passant = None
    /\ half_moves_since_pawn_moved = 0
    /\ half_moves_since_capture = 0
    /\ castling = {King(White), Queen(White), King(Black), Queen(Black)}
    /\ pocket = [side \in {White, Black} |-> <<>>]
    /\ caller \in Callers
    /\ ret = Idle
    /\ str_log = <<>>
    /\ rollbacks = 0
    /\ obs_log = <<>>
    /\ misused = FALSE
    /\ shared = 0
    /\ saves = 0
    /\ resets = 0

\* A call of move(m)
Move(m) ==
    /\ ret = Idle
    /\ half_moves <= PlyBound(caller)
    /\ LET out == MoveOut(Game, m) IN
       /\ Install(MoveEngine(Game, m))
       /\ ret' = Call("move", out, m, -1)
       /\ str_log' = IF out = "ok" THEN Append(str_log, Str(Game)) ELSE str_log
       /\ obs_log' = IF out = "ok" THEN Append(obs_log, Observed(Game)) ELSE obs_log
    /\ UNCHANGED <<caller, rollbacks, misused, saves, resets>>

\* A call of assert_move(m)
AssertMove(m) ==
    /\ ret = Idle
    /\ half_moves <= PlyBound(caller)
    /\ Install(AssertMoveEngine(Game, m))
    /\ ret' = Call("assert_move", AssertMoveOut(Game, m), m, -1)
    /\ UNCHANGED <<caller, str_log, rollbacks, obs_log, misused, saves, resets>>

\* the clients that call save_history themselves, and those of them that
\* call init_board_state on the running game
Keepers == {"keeper", "composer"} \cup Returners
Resetters == {"keeper", "composer"}

\* the clients that call load_history; the clients of the two long games
\* ("repeat", "bare") only play moves
Undoers == (Callers \cup SetupCallers) \ {"repeat", "bare"}

\* A call of load_history(offset)
LoadHistory(offset) ==
    /\ ret = Idle
    /\ caller \in Undoers
    /\ rollbacks < RollbackBound(caller)
    /\ caller \in Keepers => rollbacks + saves + resets < CallBound(caller)
    /\ Install(LoadHistoryEngine(Game, offset))
    /\ ret' = Call("load_history", LoadHistoryOut(Game, offset), NoMove, offset)
    /\ str_log' = SubSeq(str_log, 1, Min(Len(str_log), Len(moves_history')))
    /\ obs_log' = SubSeq(obs_log, 1, Min(Len(obs_log), Len(moves_history')))
    /\ rollbacks' = rollbacks + 1
    /\ misused' = (misused \/ offset \notin 1..Len(board_history))
    /\ UNCHANGED <<caller, saves, resets>>

\* A call of save_history() by the client
CallSaveHistory ==
    /\ ret = Idle
    /\ caller \in Keepers
    /\ rollbacks + saves + resets < CallBound(caller)
    /\ Install(SaveHistory(Game))
    /\ ret' = Call("save_history", "ok", NoMove, -1)
    /\ saves' = saves + 1
    /\ UNCHANGED <<caller, str_log, rollbacks, obs_log, misused, resets>>

\* A call of init_board_state() by the client on the running game
CallInitBoardState ==
    /\ ret = Idle
    /\ caller \in Resetters
    /\ rollbacks + saves + resets < CallBound(caller)
    /\ Install(InitBoardStateEngine(Game))
    /\ ret' = Call("init_board_state", "ok", NoMove, -1)
    /\ resets' = resets + 1
    /\ UNCHANGED <<caller, str_log, rollbacks, obs_log, misused, saves>>

\* The client takes the call's result (its value or its exception) and goes on
Return ==
    /\ ret # Idle
    /\ ret' = Idle
    /\ UNCHANGED <<engine, caller, str_log, rollbacks, obs_log, misused, saves, resets>>

Next ==
    \/ \E m \in Repertoire(caller) : Move(m)
    \/ \E m \in Repertoire(caller) : AssertMove(m)
    \/ \E offset \in Offsets(caller) : LoadHistory(offset)
    \/ CallSaveHistory
    \/ CallInitBoardState
    \/ Return

Spec == Init /\ [][Next]_vars

\* the pieces put on the squares of an empty board
Place(pieces) ==
    [p \in Squares |->
        IF \E piece \in Kinds \X {White, Black} : <<piece, p>> \in pieces
        THEN CHOOSE piece \in Kinds \X {White, Black} : <<piece, p>> \in pieces
        ELSE None]

\* the position each composing client puts on the board of Normal(init_board_state=False)
SetupBoard(c) ==
    CASE c = "bishop" ->
            Place({ <<King(White), FromStr("b", 1)>>, <<Bishop(White), FromStr("c", 1)>>,
                    <<King(Black), FromStr("h", 8)>> })
      [] c = "knight" ->
            Place({ <<King(White), FromStr("a", 1)>>, <<King(Black), FromStr("h", 8)>>,
                    <<Knight(Black), FromStr("g", 8)>> })
      [] c = "corner" ->
            Place({ <<King(White), FromStr("b", 6)>>, <<Bishop(White), FromStr("d", 6)>>,
                    <<King(Black), FromStr("a", 8)>> })
      [] c = "lastrank" ->
            Place({ <<King(White), FromStr("h", 1)>>, <<Pawn(White), FromStr("a", 7)>>,
                    <<King(Black), FromStr("f", 2)>>, <<Bishop(Black), FromStr("d", 6)>> })
      [] c = "kingless" ->
            Place({ <<Rook(White), FromStr("a", 1)>>, <<King(Black), FromStr("h", 8)>> })
      [] c = "alone" ->
            Place({ <<King(Black), FromStr("h", 8)>> })
      [] c = "composer" ->
            Place({ <<King(White), FromStr("c", 3)>>, <<King(Black), FromStr("f", 6)>> })
      [] c = "stale" ->
            Place({ <<King(White), FromStr("e", 3)>>, <<Pawn(White), FromStr("e", 5)>>,
                    <<King(Black), FromStr("h", 8)>>, <<Pawn(Black), FromStr("d", 7)>> })
      [] c = "mirror" ->
            Place({ <<King(White), FromStr("e", 3)>>, <<Pawn(White), FromStr("e", 5)>>,
                    <<King(Black), FromStr("h", 8)>>, <<Pawn(Black), FromStr("f", 7)>> })
      [] c = "fork" ->
            Place({ <<King(White), FromStr("b", 3)>>, <<Pawn(White), FromStr("b", 5)>>,
                    <<King(Black), FromStr("h", 8)>>, <<Pawn(Black), FromStr("c", 7)>>,
                    <<Pawn(Black), FromStr("a", 6)>> })
      [] c = "repeat" ->
            Place({ <<King(White), FromStr("b", 6)>>, <<Queen(White), FromStr("c", 2)>>,
                    <<King(Black), FromStr("a", 8)>> })
      [] c = "bare" ->
            Place({ <<King(White), FromStr("a", 1)>>, <<King(Black), FromStr("h", 8)>> })
      [] c = "queen" ->
            Place({ <<King(White), FromStr("b", 6)>>, <<Queen(White), FromStr("c", 2)>>,
                    <<King(Black), FromStr("a", 8)>> })

\* Normal(init_board_state=False), the board then composed with board.put_piece
SetupInit ==
    /\ caller \in SetupCallers
    /\ board = SetupBoard(caller)
    /\ half_moves = 1
    /\ moves_history = <<>>
    /\ board_history = <<>>
    /\ position_occurence = <<>>
    /\ en_passant = None
    /\ half_moves_since_pawn_moved = 0
    /\ half_moves_since_capture = 0
    /\ castling = {King(White), Queen(White), King(Black), Queen(Black)}
    /\ pocket = [side \in {White, Black} |-> <<>>]
    /\ ret = Idle
    /\ str_log = <<>>
    /\ rollbacks = 0
    /\ obs_log = <<>>
    /\ misused = FALSE
    /\ shared = 0
    /\ saves = 0
    /\ resets = 0

SetupSpec == SetupInit /\ [][Next]_vars

---------------------------------------------------------------------------
(* Properties                                                              *)

\* the client has only played moves: no rollback, no save_history and no
\* init_board_state of its own
CommitsOnly == rollbacks = 0 /\ saves = 0 /\ resets = 0

\* the client has played moves and taken moves back with offsets from 1 to the
\* number of snapshots, nothing else
InRange == ~misused /\ saves = 0 /\ resets = 0

\* the side that is not on move: the side that has just moved
JustMoved == CHOOSE side \in OtherSides(OnMove(half_moves)) : TRUE

\* the king of the side stands on a square the other sides attack
InCheck(b, side) ==
    \E king_pos \in FindPieces(b, King(side)) :
        king_pos \in AttackedFieldsBySides(b, OtherSides(side))

\* the last call was move(m) and it committed m
Committed == ret.op = "move" /\ ret.out = "ok"

\* C1: in a state reached by commits alone, load_history(1) after a committed
\* move gives back the state string read before that move (board layout, side
\* to move, castling letters, en-passant square, half-move clock, move number).
C1_CommitUndoRoundTrip ==
    [][ (CommitsOnly /\ ret'.op = "load_history" /\ ret'.offset = 1 /\ ret'.out = "ok")
        => Str(Game)' = str_log[Len(str_log)] ]_vars

\* C1 witness: a committed en-passant capture has been undone; the target square
\* of the double step is back and the board holds all 32 pieces again.
C1_Witness ==
    /\ ret = Call("load_history", "ok", NoMove, 1)
    /\ en_passant = <<FromStr("b", 6)>>
    /\ Cardinality(PiecesOn(board)) = 32
    /\ pocket[White] = <<Pawn(Black)>>

Rejections == {"NoPiece", "NotAValidMove", "CausesCheck", "NotAValidPromotion", "WrongMoveOrder"}

\* C2: a call of move that raises NoPiece, NotAValidMove, CausesCheck,
\* NotAValidPromotion or WrongMoveOrder leaves the board, the counters, the
\* en-passant target, the castling rights, the repetition table, the pockets,
\* the move history and the snapshot stack as they were.
C2_RejectedCommitAtomic ==
    [][ (ret'.op = "move" /\ ret'.out \in Rejections) => UNCHANGED engine ]_vars

\* C2 witness: a move of the side on move was rejected with CausesCheck after
\* some moves had been committed.
C2_Witness ==
    /\ ret.op = "move" /\ ret.out = "CausesCheck"
    /\ SideOf(board[ret.move.source]) = OnMove(half_moves)
    /\ Len(board_history) > 0

\* C3: a call of assert_move leaves the engine unchanged, whether it returns or
\* raises; the relocation it simulates touches the scratch copy only.
C3_AssertMoveFrame ==
    [][ ret'.op = "assert_move" => UNCHANGED engine ]_vars

\* C3 witness: assert_move has accepted an en-passant capture, whose simulation
\* moves the capturing pawn and removes the captured one.
C3_Witness ==
    /\ ret.op = "assert_move" /\ ret.out = "ok"
    /\ board[ret.move.source] = Pawn(White)
    /\ en_passant = <<ret.move.destination>>

\* C4: after any sequence of committed moves the side that has just moved is
\* not in check on the real board.
C4_NoSelfCheck ==
    CommitsOnly => ~InCheck(board, JustMoved)

\* C4 witness: White has answered a check by a committed move: the bishop on b4
\* attacks e1 through the empty squares c3 and d2, and the king has just left e1.
C4_Witness ==
    /\ CommitsOnly /\ Committed
    /\ ret.move.source = FromStr("e", 1)
    /\ board[FromStr("b", 4)] = Bishop(Black)
    /\ board[FromStr("d", 2)] = None /\ board[FromStr("c", 3)] = None
    /\ FromStr("e", 1) \in AttackedFieldsBySides(board, {Black})
    /\ OnMove(half_moves) = Black

\* the home rank of a side
HomeRank(side) == IF side = White THEN 0 ELSE 7

\* m moves the king of the side two files toward the h-file
KingSideCastle(b, m) ==
    /\ b[m.source] # None /\ KindOf(b[m.source]) = "King"
    /\ RankOf(m.source) = RankOf(m.destination)
    /\ FileOf(m.destination) - FileOf(m.source) = 2

\* what the rules ask of the state in which a king-side castling is played
KingSideCastleAllowed(g, side) ==
    LET rank == HomeRank(side)
        e == StandardPosition(4, rank)
        f == StandardPosition(5, rank)
        gg == StandardPosition(6, rank)
        h == StandardPosition(7, rank)
    IN  /\ g.board[e] = King(side) /\ g.board[h] = Rook(side)
        /\ g.board[f] = None /\ g.board[gg] = None
        /\ King(side) \in g.castling
        /\ {e, f, gg} \cap AttackedFieldsBySides(g.board, OtherSides(side)) = {}

\* C5: move commits a king-side castling only when king and rook are on their
\* home squares, the squares between them are empty, the right is held and none
\* of the king's square, the square it crosses and the square it reaches is
\* attacked; never while the king is in check.
C5_KingSideCastlingOnlyWhenSafe ==
    [][ (ret'.op = "move" /\ ret'.out = "ok" /\ KingSideCastle(board, ret'.move))
        => KingSideCastleAllowed(Game, SideOf(board[ret'.move.source])) ]_vars

\* C6: no committed move adds a castling right: the rights after a commit are
\* among the rights before it.
C6_CastlingRightsShrink ==
    [][ (ret'.op = "move" /\ ret'.out = "ok") => castling' \subseteq castling ]_vars

\* C6 witness: commits alone have removed both king-side rights, and the rooks
\* are back on their corners.
C6_Witness ==
    /\ CommitsOnly /\ Committed
    /\ castling = {Queen(White), Queen(Black)}
    /\ board[FromStr("h", 1)] = Rook(White) /\ board[FromStr("h", 8)] = Rook(Black)

\* m moves a pawn onto the farthest rank, to a square the generators offer,
\* without leaving the king of the pawn's side attacked
PromotingMove(g, m) ==
    /\ g.board[m.source] # None /\ KindOf(g.board[m.source]) = "Pawn"
    /\ RankOf(m.destination) \in {7, 0}
    /\ m.destination \in AvailableDest(g, m.source)
    /\ ~InCheck(ScratchRelocate(g, m).test_board, SideOf(g.board[m.source]))

\* C7: a pawn move onto the farthest rank that passes the destination and
\* self-check tests is rejected with NotAValidPromotion and no change of state
\* when it names no promotion piece; naming a kind K, the move of the side on
\* move is committed, and the destination then holds the mover's piece of kind
\* K and no pawn.
C7_PromotionRequired ==
    [][ (ret'.op = "move" /\ PromotingMove(Game, ret'.move))
        => IF ret'.move.promotion = NoPromotion
           THEN ret'.out = "NotAValidPromotion" /\ UNCHANGED engine
           ELSE SideOf(board[ret'.move.source]) = OnMove(half_moves)
                => /\ ret'.out = "ok"
                   /\ board'[ret'.move.destination]
                        = <<ret'.move.promotion, OnMove(half_moves)>>
                   /\ board'[ret'.move.destination] # Pawn(OnMove(half_moves)) ]_vars

\* C7 witness: the pawn has taken on b8 and a white knight stands there.
C7_Witness ==
    /\ Committed /\ ret.move.promotion = "Knight"
    /\ board[ret.move.destination] = Knight(White)
    /\ RankOf(ret.move.destination) = 7
    /\ pocket[White] # <<>>

\* the state signature read off a state string: board layout, side to move,
\* castling rights and en-passant target
Signature(str) ==
    [board |-> str.board, on_move |-> str.on_move, castling |-> str.castling,
     en_passant |-> str.en_passant]

\* the signatures the committed moves in the history have produced, in order
ProducedSignatures ==
    [i \in 1..Len(str_log) |->
        IF i < Len(str_log) THEN Signature(str_log[i + 1]) ELSE Signature(Str(Game))]

\* how often the commits have produced the signature
Produced(signature) ==
    Cardinality({i \in 1..Len(str_log) : ProducedSignatures[i] = signature})

\* the board holds the two kings and nothing else
BareKingsBoard(b) ==
    /\ Cardinality(PiecesOn(b)) = 2
    /\ Cardinality(FindPieces(b, King(White))) = 1
    /\ Cardinality(FindPieces(b, King(Black))) = 1

\* the board holds the two kings and one bishop or knight, nothing else
LoneMinorBoard(b) ==
    /\ Cardinality(PiecesOn(b)) = 3
    /\ Cardinality(FindPieces(b, King(White))) = 1
    /\ Cardinality(FindPieces(b, King(Black))) = 1
    /\ \E p \in PiecesOn(b) : KindOf(b[p]) \in {"Bishop", "Knight"}

\* the insufficient-material condition: the kings alone, or with one minor piece
InsufficientMaterial(b) == BareKingsBoard(b) \/ LoneMinorBoard(b)

\* both counters have reached the hundred half-moves of the fifty-move rule
FiftyMovesPassed ==
    half_moves_since_pawn_moved >= 100 /\ half_moves_since_capture >= 100

\* the moves in the history have produced one state signature three times
ThreefoldProduced ==
    \E i \in 1..Len(str_log) : Produced(ProducedSignatures[i]) >= 3

\* C8: when the commits have produced one state signature three times and
\* neither the insufficient-material condition (the kings alone or with one
\* minor piece) nor the fifty-move condition (both counters at 100 half-moves)
\* holds, game_state returns all sides with the reason 'threefold repetition'.
C8_ThreefoldFires ==
    (/\ CommitsOnly
     /\ ThreefoldProduced
     /\ ~InsufficientMaterial(board)
     /\ ~FiftyMovesPassed)
    => \A verdict \in GameState(Game) :
            /\ verdict.reason = "threefold repetition"
            /\ verdict.winners = {White, Black}

\* how often the signature has occurred, the starting position counted as well
Occurred(signature) ==
    Produced(signature)
    + (IF Len(str_log) > 0 /\ Signature(str_log[1]) = signature THEN 1 ELSE 0)

\* C9: game_state reports 'threefold repetition' only if one signature of board
\* layout, side to move, castling rights and en-passant target has occurred at
\* least three times.
C9_ThreefoldKeyedBySignature ==
    (CommitsOnly /\ \E verdict \in GameState(Game) : verdict.reason = "threefold repetition")
    => \E i \in 1..Len(str_log) : Occurred(ProducedSignatures[i]) >= 3

\* C10: when insufficient material does not apply, game_state reports the
\* 'fifty-move rule' exactly when both counters have reached 100 half-moves.
C10_FiftyMoveThreshold ==
    CommitsOnly
    => \A verdict \in GameState(Game) :
            verdict.reason # "insufficient material"
            => (verdict.reason = "fifty-move rule"
                <=> (half_moves_since_pawn_moved >= 100 /\ half_moves_since_capture >= 100))

\* C11: whenever the board holds exactly the two kings and one lone bishop or
\* knight, game_state returns all sides with the reason 'insufficient
\* material', whether or not the side to move has a legal move.
C11_InsufficientMaterial ==
    LoneMinorBoard(board)
    => \A verdict \in GameState(Game) :
            /\ verdict.reason = "insufficient material"
            /\ verdict.winners = {White, Black}

\* the piece kinds a pawn may promote to
PromotionKinds == {"Queen", "Rook", "Bishop", "Knight"}

\* the side to move has a move that a call of move would commit
HasAcceptableMove(g) ==
    \E source \in PiecesOn(g.board) : \E destination \in Squares :
        \E promotion \in {NoPromotion} \cup PromotionKinds :
            MoveOut(g, StandardMove(source, destination, promotion)) = "ok"

\* the verdict is one of the draws that come before check mate and stalemate
HigherDraw(verdict) ==
    verdict.reason \in {"insufficient material", "fifty-move rule", "threefold repetition"}

\* C12: when no draw of higher priority applies, game_state reports a result
\* exactly when the side to move has no move that move would commit (promotions
\* counted): the other side with 'check mate' if the king of the side to move
\* is attacked, all sides with 'stalemate' if not; and (None, None) otherwise.
C12_MateOrStalemate ==
    \A verdict \in GameState(Game) :
        ~HigherDraw(verdict)
        => IF HasAcceptableMove(Game)
           THEN verdict.out = "ok" /\ verdict.reason = "None"
           ELSE IF InCheck(board, OnMove(half_moves))
           THEN /\ verdict.reason = "check mate"
                /\ verdict.winners = OtherSides(OnMove(half_moves))
           ELSE /\ verdict.reason = "stalemate"
                /\ verdict.winners = {White, Black}

\* the moves of the list that start from a piece of the kind
MovesOfKind(g, moves, kind) == {move \in moves : KindOf(g.board[move.source]) = kind}

\* C13: in the standard initial layout all_available_moves() returns 20
\* distinct moves for White, 16 of pawns and 4 of knights; after e2e4 has been
\* committed it returns 20 distinct moves for Black.
C13_OpeningMoveCounts ==
    /\ (CommitsOnly /\ moves_history = <<>>)
       => LET moves == AllAvailableMoves(Game, OnMove(half_moves)).moves IN
          /\ OnMove(half_moves) = White
          /\ AllAvailableMoves(Game, OnMove(half_moves)).out = "ok"
          /\ Cardinality(moves) = 20
          /\ Cardinality(MovesOfKind(Game, moves, "Pawn")) = 16
          /\ Cardinality(MovesOfKind(Game, moves, "Knight")) = 4
    /\ (CommitsOnly /\ moves_history = <<MoveOf("e", 2, "e", 4, NoPromotion)>>)
       => /\ OnMove(half_moves) = Black
          /\ AllAvailableMoves(Game, OnMove(half_moves)).out = "ok"
          /\ Cardinality(AllAvailableMoves(Game, OnMove(half_moves)).moves) = 20

\* C13 witness: e2e4 has just been committed, the pawn stands on e4 and Black
\* has its 20 moves.
C13_Witness ==
    /\ Committed /\ CommitsOnly
    /\ moves_history = <<MoveOf("e", 2, "e", 4, NoPromotion)>>
    /\ board[FromStr("e", 4)] = Pawn(White)
    /\ Cardinality(AllAvailableMoves(Game, Black).moves) = 20

\* C14: load_history(offset) with an offset above the number of snapshots, or
\* with offset <= 0, raises an error and leaves the board, the counters, the
\* castling rights, the en-passant target, the repetition table, the move
\* history and the snapshot stack as they were before the call.
C14_OutOfRangeRollbackFailsSafely ==
    [][ (/\ ret'.op = "load_history"
         /\ (ret'.offset > Len(board_history) \/ ret'.offset <= 0))
        => (ret'.out # "ok" /\ UNCHANGED engine) ]_vars

\* C15: in every state reached by successful commits and in-range rollbacks
\* (1 <= offset <= number of snapshots), the snapshot stack is as long as the
\* move history, and both hold half_moves - 1 entries, the number of committed
\* moves not yet undone.
C15_StackCounterConsistency ==
    InRange
    => /\ Len(board_history) = Len(moves_history)
       /\ Len(moves_history) = half_moves - 1
       /\ Len(moves_history) = Len(obs_log)

\* C15 witness: after an in-range rollback a further move has been committed
\* on top of at least two moves that were kept.
C15_Witness ==
    /\ InRange /\ rollbacks > 0 /\ Committed
    /\ Len(moves_history) >= 3

\* C16: the half-move counter starts from 1; every committed move adds exactly
\* 1 to it and flips the side to move; move commits only a piece of the side
\* to move, and raises WrongMoveOrder for a move of another side's piece that
\* passes assert_move; so, as long as rollbacks stayed in range, the odd
\* entries of the move history are White's moves and the even ones Black's.
C16_TurnOrder ==
    [][ /\ (CommitsOnly /\ moves_history = <<>>) => half_moves = 1
        /\ ret'.op = "move"
           => LET mover == SideOf(board[ret'.move.source]) IN
              /\ ret'.out = "ok"
                 => /\ half_moves' = half_moves + 1
                    /\ OnMove(half_moves') # OnMove(half_moves)
                    /\ mover = OnMove(half_moves)
                    /\ InRange => (mover = White <=> Len(moves_history') % 2 = 1)
              /\ (AssertMoveOut(Game, ret'.move) = "ok" /\ mover # OnMove(half_moves))
                 => ret'.out = "WrongMoveOrder" ]_vars

\* C16 witness: after two committed moves a move of a black piece, legal but
\* for the turn, has been refused with WrongMoveOrder.
C16_Witness ==
    /\ ret.op = "move" /\ ret.out = "WrongMoveOrder"
    /\ half_moves = 3 /\ Len(moves_history) = 2
    /\ SideOf(board[ret.move.source]) = Black

\* the fields of a logged state that a snapshot holds
SnapshotFields(o) ==
    [board |-> o.board, half_moves |-> o.half_moves,
     position_occurence |-> o.position_occurence, en_passant |-> o.en_passant,
     half_moves_since_pawn_moved |-> o.half_moves_since_pawn_moved,
     half_moves_since_capture |-> o.half_moves_since_capture,
     castling |-> o.castling]

\* C17: after n commits, load_history(k) with 1 <= k <= n succeeds and sets the
\* board, the half-move counter, the en-passant target, both sub-counters, the
\* castling rights and the repetition table to the values they had after the
\* first n - k commits, and the move history to its first n - k entries; and a
\* commit leaves the snapshots taken before it as they were taken.
C17_GeneralRollback ==
    [][ /\ (/\ CommitsOnly /\ ret'.op = "load_history"
            /\ ret'.offset \in 1..Len(moves_history))
           => LET n == Len(moves_history)
                  k == ret'.offset
              IN  /\ ret'.out = "ok"
                  /\ Observed(Game)' = obs_log[n - k + 1]
                  /\ moves_history' = SubSeq(moves_history, 1, n - k)
        /\ (ret'.op = "move" /\ ret'.out = "ok" /\ InRange)
           => \A i \in 1..Len(board_history) :
                 /\ board_history'[i] = board_history[i]
                 /\ board_history'[i] = SnapshotFields(obs_log[i]) ]_vars

\* C17 witness: three of at least five committed moves have been undone in one
\* call, and the repetition table has lost the entries of the undone moves.
C17_Witness ==
    /\ ret = Call("load_history", "ok", NoMove, 3)
    /\ rollbacks = 1 /\ InRange
    /\ Len(moves_history) >= 2
    /\ Cardinality(DOMAIN position_occurence) = Len(moves_history)

\* the most recent move in the history advanced a pawn by two squares
LastMoveIsDoubleStep ==
    /\ Len(moves_history) > 0
    /\ LET last == moves_history[Len(moves_history)]
           before == obs_log[Len(moves_history)].board
       IN  /\ KindOf(before[last.source]) = "Pawn"
           /\ FileOf(last.source) = FileOf(last.destination)
           /\ Abs(RankOf(last.source) - RankOf(last.destination)) = 2

\* the square the pawn of the most recent move skipped over
SkippedSquare ==
    LET last == moves_history[Len(moves_history)] IN
    StandardPosition(FileOf(last.source), (RankOf(last.source) + RankOf(last.destination)) \div 2)

\* m moves a pawn diagonally onto an empty square
EnPassantCapture(b, m) ==
    /\ b[m.source] # None /\ KindOf(b[m.source]) = "Pawn"
    /\ FileOf(m.source) # FileOf(m.destination)
    /\ b[m.destination] = None

\* while rollbacks stay in range, the target is set exactly after a double step
EnPassantWindow ==
    InRange
    => /\ en_passant # None <=> LastMoveIsDoubleStep
       /\ en_passant # None => en_passant = <<SkippedSquare>>

\* C18: in every state reached by commits and in-range rollbacks the en-passant
\* target is set exactly when the most recent move in the history is a
\* two-square pawn advance, and it is then the square that pawn skipped; an
\* en-passant capture is accepted only on the ply right after the double step,
\* onto the skipped square.
C18_EnPassantWindow ==
    /\ []EnPassantWindow
    /\ [][ (/\ InRange /\ ret'.op \in {"move", "assert_move"} /\ ret'.out = "ok"
            /\ EnPassantCapture(board, ret'.move))
           => /\ LastMoveIsDoubleStep
              /\ ret'.move.destination = SkippedSquare ]_vars

\* C18 witness: a capture onto the skipped square has been refused because a
\* move of each side was committed after the double step.
C18_Witness ==
    /\ InRange /\ ret.op = "move" /\ ret.out = "NotAValidMove"
    /\ EnPassantCapture(board, ret.move)
    /\ Len(moves_history) >= 3
    /\ LET double == moves_history[Len(moves_history) - 2]
           before == obs_log[Len(moves_history) - 2].board
       IN  /\ KindOf(before[double.source]) = "Pawn"
           /\ Abs(RankOf(double.source) - RankOf(double.destination)) = 2
           /\ FileOf(double.source) = FileOf(ret.move.destination)
           /\ board[double.destination] = Pawn(Black)
           /\ RankOf(double.destination) = RankOf(ret.move.source)
    /\ en_passant = None

\* the piece that m captures on the board b, by displacement or en passant
CapturedBy(b, m) ==
    IF b[m.destination] # None THEN b[m.destination]
    ELSE IF EnPassantCapture(b, m)
    THEN b[StandardPosition(FileOf(m.destination), RankOf(m.source))]
    ELSE None

\* C19: a committed pawn move sets the half-moves-since-pawn-move counter to 0,
\* any other committed move adds 1 to it; a committed capture (by displacement
\* or en passant) sets the half-moves-since-capture counter to 0 and appends
\* the captured piece to the pocket of the moving side, any other committed
\* move adds 1 to that counter and leaves both pockets as they were.
C19_CounterUpdates ==
    [][ (ret'.op = "move" /\ ret'.out = "ok")
        => LET m == ret'.move
               captured == CapturedBy(board, m)
           IN  /\ half_moves_since_pawn_moved'
                    = IF KindOf(board[m.source]) = "Pawn" THEN 0
                      ELSE half_moves_since_pawn_moved + 1
               /\ Cardinality(PiecesOn(board'))
                    = Cardinality(PiecesOn(board)) - (IF captured = None THEN 0 ELSE 1)
               /\ IF captured = None
                  THEN /\ half_moves_since_capture' = half_moves_since_capture + 1
                       /\ pocket' = pocket
                  ELSE /\ half_moves_since_capture' = 0
                       /\ pocket' = [pocket EXCEPT
                                        ![OnMove(half_moves)] = Append(@, captured)] ]_vars

\* C19 witness: the black queen has just taken the pawn on d5, the first
\* capture by Black: the capture counter is 0, the pawn counter 1.
C19_Witness ==
    /\ Committed /\ CommitsOnly
    /\ board[ret.move.destination] = Queen(Black)
    /\ pocket[Black] = <<Pawn(White)>>
    /\ pocket[White] = <<Pawn(Black)>>
    /\ half_moves_since_capture = 0 /\ half_moves_since_pawn_moved = 1

\* the squares of a side's king and rooks in the initial layout
KingHome(side) == StandardPosition(4, HomeRank(side))
RookCorner(wing, side) == StandardPosition(IF wing = "King" THEN 7 ELSE 0, HomeRank(side))

\* a right that is held has its king and its rook on their home squares
RightsImplyHome ==
    InRange
    => \A side \in {White, Black} : \A wing \in {"King", "Queen"} :
          <<wing, side>> \in castling
          => /\ board[KingHome(side)] = King(side)
             /\ board[RookCorner(wing, side)] = Rook(side)

\* C20: in every state reached by commits from the standard initial layout, a
\* side that holds the king-side (queen-side) right has its king on the e-file
\* square of its home rank and a rook of its own on the h-file (a-file) corner;
\* a committed move from the king's home square removes both rights of the
\* side, one from or to a rook corner removes the right of that corner.
C20_RightsImplyHomeSquares ==
    /\ []RightsImplyHome
    /\ [][ (ret'.op = "move" /\ ret'.out = "ok")
           => \A side \in {White, Black} : \A wing \in {"King", "Queen"} :
                 (\/ ret'.move.source = KingHome(side)
                  \/ RookCorner(wing, side) \in {ret'.move.source, ret'.move.destination})
                 => <<wing, side>> \notin castling' ]_vars

\* C20 witness: a white pawn has just taken the rook on a8; Black has lost the
\* queen-side right and keeps the king-side one, king and h-rook at home.
C20_Witness ==
    /\ Committed /\ CommitsOnly
    /\ ret.move.destination = FromStr("a", 8)
    /\ SideOf(board[FromStr("a", 8)]) = White
    /\ Queen(Black) \notin castling /\ King(Black) \in castling
    /\ board[FromStr("e", 8)] = King(Black) /\ board[FromStr("h", 8)] = Rook(Black)

\* the squares between the king's home square and the a-file corner
QueenSideBetween(side) == {StandardPosition(file, HomeRank(side)) : file \in 1..3}

\* C21: special_moves offers the king on its home square the queen-side
\* castling destination (the c-file square of the home rank) only when the
\* b-, c- and d-file squares of that rank are all empty.
C21_QueenSideClearance ==
    LET side == OnMove(half_moves)
        king_pos == KingHome(side)
    IN  (/\ board[king_pos] = King(side)
         /\ StandardPosition(2, HomeRank(side)) \in SpecialMoves(Game, board, king_pos))
        => \A p \in QueenSideBetween(side) : board[p] = None

\* m moves a king two files along the home rank of its side
CastlingMove(b, m) ==
    /\ b[m.source] # None /\ KindOf(b[m.source]) = "King"
    /\ RankOf(m.source) = HomeRank(SideOf(b[m.source]))
    /\ RankOf(m.destination) = RankOf(m.source)
    /\ Abs(FileOf(m.source) - FileOf(m.destination)) = 2

\* C22: after a committed king move of two files on the home rank the king is
\* on the g-file (c-file), a rook of its side has gone from the h-file (a-file)
\* corner to the f-file (d-file) square, the corner is empty, no other square
\* has changed, nothing has been displaced or captured, and the side has lost
\* both castling rights.
C22_CastlingRelocatesRook ==
    [][ (ret'.op = "move" /\ ret'.out = "ok" /\ CastlingMove(board, ret'.move))
        => LET m == ret'.move
               side == SideOf(board[m.source])
               rank == RankOf(m.source)
               king_side == FileOf(m.destination) = 6
               corner == StandardPosition(IF king_side THEN 7 ELSE 0, rank)
               rook_to == StandardPosition(IF king_side THEN 5 ELSE 3, rank)
           IN  /\ FileOf(m.destination) \in {6, 2}
               /\ board[corner] = Rook(side)
               /\ board[m.destination] = None /\ board[rook_to] = None
               /\ board'[m.destination] = King(side) /\ board'[rook_to] = Rook(side)
               /\ board'[corner] = None /\ board'[m.source] = None
               /\ \A p \in Squares \ {m.source, m.destination, corner, rook_to} :
                     board'[p] = board[p]
               /\ pocket' = pocket
               /\ King(side) \notin castling' /\ Queen(side) \notin castling' ]_vars

\* C22 witness: White has just castled queen-side: king c1, rook d1, a1 empty.
C22_Witness ==
    /\ Committed /\ ret.move = MoveOf("e", 1, "c", 1, NoPromotion)
    /\ board[FromStr("c", 1)] = King(White) /\ board[FromStr("d", 1)] = Rook(White)
    /\ board[FromStr("a", 1)] = None /\ board[FromStr("e", 1)] = None
    /\ castling = {King(Black), Queen(Black)}

\* the first occupied square on the ray from position along vector, if any
RECURSIVE FirstOccupied(_, _, _, _, _)
FirstOccupied(b, position, vector, distance, limit) ==
    LET file == FileOf(position) + vector[1] * distance
        rank == RankOf(position) + vector[2] * distance
    IN  IF limit # Infinity /\ distance > limit THEN {}
        ELSE IF ~(file \in 0..7 /\ rank \in 0..7) THEN {}
        ELSE IF b[StandardPosition(file, rank)] # None THEN {StandardPosition(file, rank)}
        ELSE FirstOccupied(b, position, vector, distance + 1, limit)

\* C23: for every piece, every capture descriptor of it, taken with the
\* capture_break flag set and not set, and every direction, the loop of
\* standard_captures yields at most the first occupied square of the ray, and
\* that one only if it holds a piece of another side; never a square behind it.
C23_CaptureRaysStopAtFirstBlocker ==
    \A position \in PiecesOn(board) : \A capture_break \in BOOLEAN :
        LET piece == board[position] IN
        \A dv \in Vectors(MovementCapture(KindOf(piece)), SideOf(piece)) :
            CaptureRay(board, position, SideOf(piece), dv.vector, 1, dv.distance, capture_break)
            \subseteq {p \in FirstOccupied(board, position, dv.vector, 1, dv.distance) :
                          SideOf(board[p]) # SideOf(piece)}

\* the same with the flags the catalog gives the descriptors
CaptureRaysOfTheCatalog ==
    \A position \in PiecesOn(board) :
        LET piece == board[position] IN
        \A dv \in Vectors(MovementCapture(KindOf(piece)), SideOf(piece)) :
            CaptureRay(board, position, SideOf(piece), dv.vector, 1, dv.distance,
                       dv.capture_break)
            \subseteq {p \in FirstOccupied(board, position, dv.vector, 1, dv.distance) :
                          SideOf(board[p]) # SideOf(piece)}

\* the side to move is in check and has no move that move would commit
Checkmated(g) ==
    /\ InCheck(g.board, OnMove(g.half_moves))
    /\ ~HasAcceptableMove(g)

\* C24: game_state looks at insufficient material first, then at the fifty-move
\* rule, then at threefold repetition and only then at check mate and
\* stalemate: with the kings alone it reports insufficient material; with the
\* fifty-move condition met it reports that draw before a repetition; and a
\* side that is checkmated while the fifty-move or the threefold condition
\* holds gets the draw for all sides with the draw's reason, not 'check mate'.
C24_OutcomePriority ==
    InRange
    => \A verdict \in GameState(Game) :
        LET reason == verdict.reason
            winners == verdict.winners
        IN /\ (/\ FindPieces(board, King(White)) # {} /\ FindPieces(board, King(Black)) # {}
               /\ PiecesOn(board)
                    = FindPieces(board, King(White)) \cup FindPieces(board, King(Black)))
              => reason = "insufficient material"
           /\ (FiftyMovesPassed /\ reason # "insufficient material")
              => reason = "fifty-move rule"
           /\ (ThreefoldProduced /\ reason \notin {"insufficient material", "fifty-move rule"})
              => reason = "threefold repetition"
           /\ ((FiftyMovesPassed \/ ThreefoldProduced) /\ Checkmated(Game))
              => /\ reason \in {"insufficient material", "fifty-move rule",
                                "threefold repetition"}
                 /\ winners = {White, Black}

\* C24 witness: Black is checkmated by the queen on h8 after a hundred
\* half-moves without capture or pawn move and with positions repeated three
\* times; game_state reports the fifty-move draw.
C24_Witness ==
    /\ InRange /\ Committed
    /\ Checkmated(Game) /\ FiftyMovesPassed /\ ThreefoldProduced
    /\ \A verdict \in GameState(Game) : verdict.reason = "fifty-move rule"

\* C25: after any sequence of committed moves from the standard layout the
\* board holds exactly one king of each side: no committed move removes a king
\* and none creates a second one.
C25_KingsPersist ==
    CommitsOnly
    => \A i \in 1..Len(sides) : Cardinality(FindPieces(board, King(sides[i]))) = 1

\* C26: in every reachable state can_i_make_a_move() is True exactly when
\* all_available_moves() of the side to move is not empty, and both treat the
\* same exceptions of assert_move as 'this candidate is not legal': the two
\* calls end the same way (both return, or both raise the same exception), and
\* when they return, True goes with a list that is not empty.
C26_CanMoveAgreesWithEnumeration ==
    LET available == AllAvailableMoves(Game, OnMove(half_moves)) IN
    \A can \in CanIMakeAMove(Game) :
        /\ can.out = available.out
        /\ available.out = "ok" => (can.value <=> available.moves # {})

\* the pieces the side has captured by the first n moves of the history, in order
RECURSIVE CapturesInHistory(_, _)
CapturesInHistory(side, n) ==
    IF n = 0 THEN <<>>
    ELSE LET before == obs_log[n]
             captured == CapturedBy(before.board, moves_history[n])
         IN  IF OnMove(before.half_moves) = side /\ captured # None
             THEN Append(CapturesInHistory(side, n - 1), captured)
             ELSE CapturesInHistory(side, n - 1)

\* C27: in every state reached from the standard layout by commits and
\* in-range rollbacks the pieces on the board and the pieces in both pockets
\* are 32 together, and the pocket of each side holds exactly the pieces
\* captured by the moves still in the history.
C27_MaterialConservation ==
    InRange
    => /\ Cardinality(PiecesOn(board)) + Len(pocket[White]) + Len(pocket[Black]) = 32
       /\ \A i \in 1..Len(sides) :
              pocket[sides[i]] = CapturesInHistory(sides[i], Len(moves_history))

\* C28: the starting position counts as an occurrence: when the committed moves
\* have brought the game back to the initial state signature twice and neither
\* insufficient material nor the fifty-move rule applies, game_state reports
\* all sides with the reason 'threefold repetition'.
C28_StartingPositionCounts ==
    (/\ CommitsOnly
     /\ Len(str_log) > 0
     /\ Produced(Signature(str_log[1])) >= 2
     /\ \A verdict \in GameState(Game) :
            verdict.reason \notin {"insufficient material", "fifty-move rule"})
    => \A verdict \in GameState(Game) :
            /\ verdict.reason = "threefold repetition"
            /\ verdict.winners = {White, Black}

============================================================================
